---- MODULE Spec2Model ----
(***************************************************************************)
(* Model of the Polkadot Prometheus exporter: the RPC client               *)
(* (PolkadotRPC), the block cache (BlockCache), the periodic tasks         *)
(* (PeriodicTask and its updaters) and the polling loop with its catch-up  *)
(* step (Exporter.serve_forever / Exporter._step).                         *)
(*                                                                         *)
(* Time is counted in tenths of a second.  The node is the environment:    *)
(* a linear chain whose head and finalized head only move forward, and     *)
(* which may answer any call with a failure or with an absent result.      *)
(***************************************************************************)
EXTENDS Integers, Sequences, FiniteSets, TLC

\* ------------------------------------------------------------------ bounds

\* height of the node's head when the exporter starts
MinHeight == 9
\* greatest height the node's head reaches
MaxHeight == 11
\* last instant (tenths of a second) of the modelled run
MaxTime == 15
\* granularity of the clock readings, in tenths of a second
TickStep == 5
\* greatest number of RPC calls the client issues in a run
MaxCalls == 16
\* greatest number of RPC calls the node lets fail in a run
MaxFailures == 1
\* BlockCache.size (256 by default): the capacity C of the cache
CacheSize == 2

\* ------------------------------------------------------------------ values

\* Python's None where a string (a hash, a hex number) is expected
None == <<>>
\* Python's None where a number is expected
NoneNum == -1
\* a JSON null in the "result" field where a block is expected
NoBlock == [number |-> None, extrinsics |-> 0]

Max(a, b) == IF a >= b THEN a ELSE b

LowerDigits == <<"0", "1", "2", "3", "4", "5", "6", "7", "8", "9", "a", "b", "c", "d", "e", "f">>

\* the small letter of each capital that occurs in an identifier
ToLower ==
    ("A" :> "a") @@ ("B" :> "b") @@ ("C" :> "c") @@ ("D" :> "d") @@ ("E" :> "e")
    @@ ("F" :> "f") @@ ("X" :> "x")
ToUpper ==
    ("a" :> "A") @@ ("b" :> "B") @@ ("c" :> "C") @@ ("d" :> "D") @@ ("e" :> "E")
    @@ ("f" :> "F") @@ ("x" :> "X")

\* str.lower() on one character
LowerChar(c) == IF c \in DOMAIN ToLower THEN ToLower[c] ELSE c

\* str.lower()
Lower(s) == [i \in DOMAIN s |-> LowerChar(s[i])]

\* str.upper(), used by callers that pass an identifier in capitals
Upper(s) == [i \in DOMAIN s |-> IF s[i] \in DOMAIN ToUpper THEN ToUpper[s[i]] ELSE s[i]]

\* value of each hexadecimal digit
HexValue ==
    ("0" :> 0) @@ ("1" :> 1) @@ ("2" :> 2) @@ ("3" :> 3) @@ ("4" :> 4) @@ ("5" :> 5)
    @@ ("6" :> 6) @@ ("7" :> 7) @@ ("8" :> 8) @@ ("9" :> 9) @@ ("a" :> 10)
    @@ ("b" :> 11) @@ ("c" :> 12) @@ ("d" :> 13) @@ ("e" :> 14) @@ ("f" :> 15)

\* value of one hexadecimal digit, either case
DigitVal(c) == HexValue[LowerChar(c)]

RECURSIVE HexDigitsOf(_)
\* the hexadecimal digits of n, most significant first, no prefix
HexDigitsOf(n) ==
    IF n < 16 THEN <<LowerDigits[n + 1]>>
    ELSE Append(HexDigitsOf(n \div 16), LowerDigits[(n % 16) + 1])

\* the node's encoding of a block number: "0x" and the hexadecimal digits
ToHex(n) == <<"0", "x">> \o HexDigitsOf(n)

RECURSIVE DigitsToInt(_)
DigitsToInt(s) ==
    IF Len(s) = 0 THEN 0
    ELSE 16 * DigitsToInt(SubSeq(s, 1, Len(s) - 1)) + DigitVal(s[Len(s)])

\* int(s, 16): an optional 0x / 0X prefix, then digits of either case
HexToInt(s) ==
    IF Len(s) >= 2 /\ s[1] = "0" /\ LowerChar(s[2]) = "x"
    THEN DigitsToInt(SubSeq(s, 3, Len(s)))
    ELSE DigitsToInt(s)

\* get_block_num / _get_block_num: the height in a block's header
get_block_num(block) == HexToInt(block.number)

\* ------------------------------------------------------------------ the node

VARIABLES head, finalized, now

\* the identifier (hash) of the block at height n, as the node prints it
HashOf(n) == <<"0", "x", "b">> \o HexDigitsOf(n)

\* hash is the identifier of some block, in any letter case
IsHash(hash) ==
    /\ Len(hash) > 3
    /\ Lower(SubSeq(hash, 1, 3)) = <<"0", "x", "b">>
    /\ HashOf(DigitsToInt(SubSeq(hash, 4, Len(hash)))) = Lower(hash)

\* the height of the block with that identifier
HeightOf(hash) == DigitsToInt(SubSeq(hash, 4, Len(hash)))

\* number of extrinsics in the block at height n
ExtrinsicsAt(n) == 1 + (n % 3)

\* the block at height n as the node returns it
BlockAt(n) == [number |-> ToHex(n), extrinsics |-> ExtrinsicsAt(n)]

\* chain_getBlockHash []: the identifier of the head
NodeHeadHash(miss) == IF miss THEN None ELSE HashOf(head)

\* chain_getBlockHash [n]: the identifier of the block at height n
NodeHashAt(n, miss) == IF miss \/ n > head \/ n < 0 THEN None ELSE HashOf(n)

\* chain_getBlock []: the head block
NodeHeadBlock(miss) == IF miss THEN NoBlock ELSE BlockAt(head)

\* chain_getBlock [hash]: the block with that identifier (any letter case)
NodeBlock(hash, miss) ==
    IF miss \/ ~IsHash(hash) \/ HeightOf(hash) > head THEN NoBlock
    ELSE BlockAt(HeightOf(hash))

\* chain_getFinalizedHead []: the identifier of the finalized head
NodeFinalizedHash(miss) ==
    IF miss \/ finalized = NoneNum THEN None ELSE HashOf(finalized)

\* ------------------------------------------------------------------ RPC client

VARIABLES rpc

\* HTTP status codes the node's endpoint may answer with
StatusCodes == {200, 302, 404, 500}

\* what one HTTP exchange may produce: a transport exception, a status, and for
\* a 200 a response with or without an "error" field
Outcomes ==
    {[net |-> TRUE, status |-> 0, error |-> FALSE]}
    \cup {[net |-> FALSE, status |-> s, error |-> FALSE] : s \in StatusCodes}
    \cup {[net |-> FALSE, status |-> 200, error |-> TRUE]}

\* the outcomes the node produces while the polling loop runs: every failure
\* raises the same PolkadotRPCError, so the loop is explored with two kinds
LoopOutcomes == {o \in Outcomes : o.net \/ (o.status \in {200, 500} /\ ~o.error)}

\* no HTTP exchange took place yet
NoOutcome == [net |-> FALSE, status |-> 0, error |-> FALSE]

\* PolkadotRPC.__init__: _next_id and the six counters; last_request_id and
\* last_outcome are history: the "id" of the last request sent and what the
\* exchange produced
RpcInit ==
    [next_id |-> 1, rpc_calls |-> 0, network_error |-> 0, unexpected_status |-> 0,
     e4xx_error |-> 0, e5xx_error |-> 0, request_error |-> 0, last_request_id |-> 0,
     last_outcome |-> NoOutcome]

\* the request is answered with a result (request_nothrow returns result_json)
Succeeds(o) == ~o.net /\ o.status = 200 /\ ~o.error

\* a faulty variant of NextId: the identifier is not advanced
NextIdSame(id) == id

\* self._next_id += 1
NextId(id) == id + 1

\* a faulty variant of request_nothrow: status 500 falls into the 4xx class
request_nothrow_500As4xx(r, o) ==
    LET sent == [r EXCEPT !.last_request_id = r.next_id,
                          !.next_id = NextId(@),
                          !.rpc_calls = @ + 1,
                          !.last_outcome = o]
    IN  IF o.net THEN [sent EXCEPT !.network_error = @ + 1]
        ELSE IF o.status # 200
             THEN IF 400 <= o.status /\ o.status <= 500
                  THEN [sent EXCEPT !.e4xx_error = @ + 1]
                  ELSE IF 500 <= o.status /\ o.status < 600
                       THEN [sent EXCEPT !.e5xx_error = @ + 1]
                       ELSE [sent EXCEPT !.unexpected_status = @ + 1]
             ELSE IF o.error THEN [sent EXCEPT !.request_error = @ + 1]
                  ELSE sent

\* PolkadotRPC.request_nothrow: the client's state after one call with outcome o
request_nothrow(r, o) ==
    LET sent == [r EXCEPT !.last_request_id = r.next_id,
                          !.next_id = NextId(@),
                          !.rpc_calls = @ + 1,
                          !.last_outcome = o]
    IN  IF o.net THEN [sent EXCEPT !.network_error = @ + 1]
        ELSE IF o.status # 200
             THEN IF 400 <= o.status /\ o.status < 500
                  THEN [sent EXCEPT !.e4xx_error = @ + 1]
                  ELSE IF 500 <= o.status /\ o.status < 600
                       THEN [sent EXCEPT !.e5xx_error = @ + 1]
                       ELSE [sent EXCEPT !.unexpected_status = @ + 1]
             ELSE IF o.error THEN [sent EXCEPT !.request_error = @ + 1]
                  ELSE sent

\* PolkadotRPC.request: raises PolkadotRPCError when request_nothrow returned None
RequestRaises(o) == ~Succeeds(o)

\* number of failed calls so far
Failures(r) ==
    r.network_error + r.unexpected_status + r.e4xx_error + r.e5xx_error + r.request_error

\* the run's budget of calls and of failures admits a call with outcome o
CanCall(o) ==
    /\ rpc.next_id <= MaxCalls
    /\ RequestRaises(o) => Failures(rpc) < MaxFailures

\* ------------------------------------------------------------------ block cache

VARIABLES cache

Keys(c) == DOMAIN c

\* the cache with entry key -> block set (dict item assignment)
Put(c, key, block) == [k \in Keys(c) \cup {key} |-> IF k = key THEN block ELSE c[k]]

RECURSIVE SortedDesc(_, _)
\* sorted(items, key=get_block_num, reverse=True): the keys of ks, greatest height first
SortedDesc(c, ks) ==
    IF ks = {} THEN <<>>
    ELSE LET top == CHOOSE k \in ks :
                        \A j \in ks : get_block_num(c[k]) >= get_block_num(c[j])
         IN  <<top>> \o SortedDesc(c, ks \ {top})

\* a faulty variant of Evict: the entries with the smallest heights are kept
EvictKeepsLowest(c, size) ==
    LET ordered == SortedDesc(c, Keys(c))
        first == IF Len(ordered) < size THEN 1 ELSE Len(ordered) - size + 1
        kept == {ordered[i] : i \in first..Len(ordered)}
    IN  [k \in kept |-> c[k]]

\* ordered_by_block_num[:size] turned back into a dict
Evict(c, size) ==
    LET ordered == SortedDesc(c, Keys(c))
        kept == {ordered[i] : i \in 1..(IF Len(ordered) < size THEN Len(ordered) ELSE size)}
    IN  [k \in kept |-> c[k]]

\* a faulty variant of NeedsCleanup: the cleanup starts one entry late
NeedsCleanupLate(c, size) == Cardinality(Keys(c)) > size * 2

\* len(self._cache) >= self.size * 2
NeedsCleanup(c, size) == Cardinality(Keys(c)) >= size * 2

\* a faulty variant of NormalizeKey: the identifier is used as given
NormalizeKeyAsIs(block_hash) == block_hash

\* block_hash = block_hash.lower()
NormalizeKey(block_hash) == Lower(block_hash)

\* a faulty variant of IsAbsent: an absent block is stored like any other
IsAbsentNever(block) == FALSE

\* if block is None: the node has no such block
IsAbsent(block) == block = NoBlock

\* block_hash not in self._cache, negated
CacheHit(c, block_hash) == NormalizeKey(block_hash) \in Keys(c)

\* BlockCache.get(block_hash) when the call it may issue has outcome o and the node
\* answers with an absent block iff miss: the cache and the client afterwards, the
\* value returned (NoBlock for None) and the exception raised ("none" if none)
CacheGet(c, r, block_hash, o, miss) ==
    LET key == NormalizeKey(block_hash)
    IN  IF CacheHit(c, block_hash)
        THEN [cache |-> c, rpc |-> r, ret |-> c[key], exc |-> "none"]
        ELSE LET r1 == request_nothrow(r, o)
                 block == NodeBlock(key, miss)
             IN  IF RequestRaises(o)
                 THEN [cache |-> c, rpc |-> r1, ret |-> NoBlock, exc |-> "PolkadotRPCError"]
                 ELSE IF IsAbsent(block)
                      THEN [cache |-> c, rpc |-> r1, ret |-> NoBlock, exc |-> "none"]
                      ELSE LET c1 == IF NeedsCleanup(c, CacheSize)
                                     THEN Evict(c, CacheSize) ELSE c
                           IN  [cache |-> Put(c1, key, block), rpc |-> r1,
                                ret |-> block, exc |-> "none"]

\* ------------------------------------------------------------------ exporter state

VARIABLES
    pc,                          \* position of the (single) thread of control
    next_iteration_time,         \* serve_forever's local
    last_processed_block_num,    \* Exporter._last_processed_block_num
    last_processed_block_hash,   \* Exporter._last_processed_block_hash
    latest_block,                \* _step's local: the head block
    latest_block_num,            \* _step's local
    block_hash,                  \* _step's local
    gauge_highest_block,         \* polkadot_highest_block
    counter_blocks_seen,         \* polkadot_blocks
    counter_extrinsics_seen,     \* polkadot_extrinsics
    idx,                         \* _run_updaters' position in _info_updaters
    caller,                      \* which call of _run_updaters is running
    last_invocation_time,        \* PeriodicTask.__last_invocation_time, per task
    fin,                         \* FinalityInfoUpdater._perform_internal's locals
    gauge_final_block,           \* polkadot_final_block
    gauge_finality_delay_blocks, \* polkadot_finality_delay_blocks
    histogram,                   \* polkadot_finality_delay_blocks_histogram: the
                                 \* number of observations and the last one
    published,                   \* the info/health/mempool metrics set so far
    observed,                    \* history: heights of the blocks counted, in order
    g,                           \* history: bookkeeping of the current _step, with
                                 \* the number of run() calls per task in it
    cget,                        \* the last BlockCache.get call of the cache driver
    info_updaters                \* Exporter._info_updaters: the registered tasks

nodeVars == <<head, finalized, now>>
engineVars ==
    <<last_processed_block_num, last_processed_block_hash, latest_block,
      latest_block_num, block_hash, gauge_highest_block, counter_blocks_seen,
      counter_extrinsics_seen, observed>>
finalityVars == <<fin, gauge_final_block, gauge_finality_delay_blocks, histogram>>
taskVars == <<last_invocation_time, published>>
controlVars == <<pc, next_iteration_time, idx, caller>>
vars ==
    <<head, finalized, now, rpc, cache, pc, next_iteration_time,
      last_processed_block_num, last_processed_block_hash, latest_block,
      latest_block_num, block_hash, gauge_highest_block, counter_blocks_seen,
      counter_extrinsics_seen, idx, caller, last_invocation_time, fin,
      gauge_final_block, gauge_finality_delay_blocks, histogram, published,
      observed, g, cget, info_updaters>>

\* Exporter.POLL_INTERVAL = 0.5 s
POLL_INTERVAL == 5

\* the periodic tasks Exporter.__init__ registers, in order
InfoUpdaters == <<"system", "health">>

\* the periodic task of _tasks.py that uses the block cache, registered the same way
CacheUpdaters == <<"finality">>

\* period_seconds each task passes to PeriodicTask.__init__, in tenths of a second
Period(task) ==
    CASE task = "system" -> 5 * 60 * 10
      [] task = "health" -> 1 * 10
      [] task = "mempool" -> 5 * 60 * 10
      [] task = "finality" -> 2

\* a faulty variant of NotDue: the period is left out of the comparison
NotDueIgnoresPeriod(last, period, t) == last # NoneNum /\ last > t

\* PeriodicTask.run's early return: the task ran less than a period ago
NotDue(last, period, t) == last # NoneNum /\ last + period > t

\* the first call of each task's _perform_internal
FirstPc(task) ==
    CASE task = "system" -> "system_name"
      [] task = "health" -> "system_health"
      [] task = "mempool" -> "author_pendingExtrinsics"
      [] task = "finality" -> "chain_getFinalizedHead"

\* the calls of SystemInfoUpdater, HealthInfoUpdater and MemPoolUpdater
SimplePcs ==
    {"system_name", "system_version", "system_chain", "state_getRuntimeVersion",
     "system_health", "author_pendingExtrinsics"}

\* what follows a successful call of those tasks ("return": the body is over)
AfterCall(p) ==
    CASE p = "system_name" -> "system_version"
      [] p = "system_version" -> "system_chain"
      [] p = "system_chain" -> "state_getRuntimeVersion"
      [] OTHER -> "return"

\* the metrics a successful call lets the task publish
Publishes(p) ==
    CASE p = "system_chain" -> {"polkadot_system"}
      [] p = "state_getRuntimeVersion" -> {"polkadot_runtime"}
      [] p = "system_health" -> {"polkadot_node_health"}
      [] p = "author_pendingExtrinsics" -> {"polkadot_pending_extrinsics"}
      [] OTHER -> {}

\* a faulty variant of CaughtByTask: the task's handler catches nothing
CaughtByTaskNothing(exc) == FALSE

\* ExporterPeriodicTask._perform: except PolkadotRPCError: pass
CaughtByTask(exc) == exc = "PolkadotRPCError"

\* a faulty variant of CaughtByLoop: the loop swallows every exception
CaughtByLoopAll(exc) == TRUE

\* serve_forever: except _PolkadotRPCError: pass
CaughtByLoop(exc) == exc = "PolkadotRPCError"

\* the positions whose next step reads the node's head or finalized head.  The
\* node moves at any time; a move commutes with every step that does not read
\* the chain, so the model lets the node move just before the chain is read.
ReadsChain(p) ==
    p \in {"chain_getFinalizedHead", "fin_chain_getBlockHash", "fast", "getHead",
           "getHash"}

\* the positions whose next step reads the clock (time()); likewise for Tick
ReadsClock(p) == p \in {"tick", "run", "sleep"}

FinInit == [final_block_hash |-> None, latest_block_hash |-> None]

\* no task's run() was called yet
NoRuns == [t \in {"system", "health", "mempool", "finality"} |-> 0]

GInit ==
    [L |-> NoneNum, n0 |-> 0, x0 |-> 0, hb0 |-> NoneNum, calls |-> <<>>, H |-> NoneNum,
     prevH |-> NoneNum, prev |-> "none", status |-> "none",
     pre |-> <<NoneNum, None>>, violation |-> "none", runs |-> NoRuns]

CgetInit == [id |-> None, hit |-> FALSE, ret |-> NoBlock, exc |-> "none"]

EmptyCache == [k \in {} |-> NoBlock]

\* the state after Exporter.__init__, with the node at its first head
Init ==
    /\ head = MinHeight
    /\ finalized = NoneNum
    /\ now = 0
    /\ rpc = RpcInit
    /\ cache = EmptyCache
    /\ pc = "tick"
    /\ next_iteration_time = 0
    /\ last_processed_block_num = NoneNum
    /\ last_processed_block_hash = None
    /\ latest_block = NoBlock
    /\ latest_block_num = NoneNum
    /\ block_hash = None
    /\ gauge_highest_block = NoneNum
    /\ counter_blocks_seen = 0
    /\ counter_extrinsics_seen = 0
    /\ idx = 0
    /\ caller = "none"
    /\ last_invocation_time = [t \in {"system", "health", "mempool", "finality"} |-> NoneNum]
    /\ fin = FinInit
    /\ gauge_final_block = NoneNum
    /\ gauge_finality_delay_blocks = NoneNum
    /\ histogram = [count |-> 0, last |-> NoneNum]
    /\ published = {}
    /\ observed = <<>>
    /\ g = GInit
    /\ cget = CgetInit
    /\ info_updaters = InfoUpdaters

\* ------------------------------------------------------------------ the node's moves

\* the node imports a block
AdvanceHead ==
    /\ ReadsChain(pc)
    /\ head < MaxHeight
    /\ head' = head + 1
    /\ UNCHANGED <<finalized, now, rpc, cache, controlVars, engineVars, finalityVars,
                   taskVars, g, cget, info_updaters>>

\* the node finalizes the next block
Finalize ==
    /\ ReadsChain(pc)
    /\ finalized < head
    /\ finalized' = IF finalized = NoneNum THEN MinHeight - 1 ELSE finalized + 1
    /\ UNCHANGED <<head, now, rpc, cache, controlVars, engineVars, finalityVars,
                   taskVars, g, cget, info_updaters>>

\* a tenth of a second passes while the thread waits
Tick ==
    /\ ReadsClock(pc)
    /\ now + TickStep <= MaxTime
    /\ now' = now + TickStep
    /\ UNCHANGED <<head, finalized, rpc, cache, controlVars, engineVars, finalityVars,
                   taskVars, g, cget, info_updaters>>

\* ------------------------------------------------------------------ control flow

\* where control lands when exc is raised, inside a task's body (inTask) or in
\* _step itself: past the task's handler, past the loop's handler, or nowhere
Land(exc, inTask) ==
    IF inTask /\ CaughtByTask(exc)
    THEN [pc |-> "run", idx |-> idx + 1, caller |-> caller, status |-> g.status]
    ELSE IF CaughtByLoop(exc)
         THEN [pc |-> "sleep", idx |-> 0, caller |-> "none", status |-> "aborted"]
         ELSE [pc |-> "crashed", idx |-> 0, caller |-> "none", status |-> "crashed"]

\* control moves to where to says; next_iteration_time stays
Goto(to) ==
    /\ pc' = to.pc
    /\ idx' = to.idx
    /\ caller' = to.caller
    /\ UNCHANGED next_iteration_time

\* the task's body is over: _run_updaters moves to the next task
TaskReturns == [pc |-> "run", idx |-> idx + 1, caller |-> caller, status |-> g.status]

\* _step returns normally
StepReturns == [pc |-> "sleep", idx |-> 0, caller |-> "none", status |-> "returned"]

\* a faulty variant of RunUpdatersAfterBlock: the call is left out of the loop's
\* body and control goes back to the loop test
RunUpdatersLeftOut == [pc |-> "loop", idx |-> 0, caller |-> "loop", status |-> g.status]

\* _step calls _run_updaters after a block
RunUpdatersAfterBlock == [pc |-> "run", idx |-> 1, caller |-> "loop", status |-> g.status]

\* control stays in the current body, at position p
Stay(p) == [pc |-> p, idx |-> idx, caller |-> caller, status |-> g.status]

\* ------------------------------------------------------------------ periodic tasks

\* serve_forever: one iteration of the loop begins and calls _step, which calls
\* _run_updaters
StartStep ==
    /\ pc = "tick"
    /\ pc' = "run"
    /\ idx' = 1
    /\ caller' = "start"
    /\ next_iteration_time' = now + POLL_INTERVAL
    /\ g' = [L |-> last_processed_block_num, n0 |-> counter_blocks_seen,
             x0 |-> counter_extrinsics_seen, hb0 |-> gauge_highest_block,
             calls |-> <<>>, H |-> NoneNum, prevH |-> g.H, prev |-> g.status,
             status |-> "running",
             pre |-> <<last_processed_block_num, last_processed_block_hash>>,
             violation |-> "none", runs |-> NoRuns]
    /\ UNCHANGED <<nodeVars, rpc, cache, engineVars, finalityVars, taskVars, cget, info_updaters>>

\* PeriodicTask.run: the task is not due, run() returns at once
RunSkip ==
    /\ pc = "run"
    /\ idx \in 1..Len(info_updaters)
    /\ NotDue(last_invocation_time[info_updaters[idx]], Period(info_updaters[idx]), now)
    /\ idx' = idx + 1
    /\ g' = [g EXCEPT !.runs[info_updaters[idx]] = @ + 1]
    /\ UNCHANGED <<nodeVars, rpc, cache, pc, next_iteration_time, caller, engineVars,
                   finalityVars, taskVars, cget, info_updaters>>

\* PeriodicTask.run: the task is due: the time is recorded, then _perform runs
RunPerform ==
    /\ pc = "run"
    /\ idx \in 1..Len(info_updaters)
    /\ ~NotDue(last_invocation_time[info_updaters[idx]], Period(info_updaters[idx]), now)
    /\ last_invocation_time' = [last_invocation_time EXCEPT ![info_updaters[idx]] = now]
    /\ pc' = FirstPc(info_updaters[idx])
    /\ g' = [g EXCEPT !.runs[info_updaters[idx]] = @ + 1]
    /\ UNCHANGED <<nodeVars, rpc, cache, next_iteration_time, idx, caller, engineVars,
                   finalityVars, published, cget, info_updaters>>

\* _run_updaters returns to _step: to the head check, or to the walk's loop test
UpdatersDone ==
    /\ pc = "run"
    /\ idx > Len(info_updaters)
    /\ pc' = IF caller = "start" THEN "fast" ELSE "loop"
    /\ idx' = 0
    /\ UNCHANGED <<nodeVars, rpc, cache, next_iteration_time, caller, engineVars,
                   finalityVars, taskVars, g, cget, info_updaters>>

\* one call of SystemInfoUpdater, HealthInfoUpdater or MemPoolUpdater
TaskCall ==
    /\ pc \in SimplePcs
    /\ \E o \in LoopOutcomes :
        /\ CanCall(o)
        /\ rpc' = request_nothrow(rpc, o)
        /\ LET to == IF RequestRaises(o) THEN Land("PolkadotRPCError", TRUE)
                     ELSE IF AfterCall(pc) = "return" THEN TaskReturns
                          ELSE Stay(AfterCall(pc))
           IN  /\ Goto(to)
               /\ g' = [g EXCEPT !.status = to.status]
        /\ published' = IF RequestRaises(o) THEN published ELSE published \cup Publishes(pc)
    /\ UNCHANGED <<nodeVars, cache, engineVars, finalityVars, last_invocation_time, cget, info_updaters>>

\* FinalityInfoUpdater._perform_internal: chain_getFinalizedHead
FinGetFinalizedHead ==
    /\ pc = "chain_getFinalizedHead"
    /\ \E o \in LoopOutcomes, miss \in BOOLEAN :
        /\ CanCall(o)
        /\ rpc' = request_nothrow(rpc, o)
        /\ LET to == IF RequestRaises(o) THEN Land("PolkadotRPCError", TRUE)
                     ELSE Stay("fin_chain_getBlockHash")
           IN  /\ Goto(to)
               /\ g' = [g EXCEPT !.status = to.status]
        /\ fin' = IF RequestRaises(o) THEN FinInit
                  ELSE [fin EXCEPT !.final_block_hash = NodeFinalizedHash(miss)]
    /\ UNCHANGED <<nodeVars, cache, engineVars, gauge_final_block,
                   gauge_finality_delay_blocks, histogram, taskVars, cget, info_updaters>>

\* a faulty variant of FinalizedAbsent: the early return is never taken
FinalizedAbsentNever(final_block_hash) == FALSE

\* if final_block_hash is None: the node has finalized nothing yet
FinalizedAbsent(final_block_hash) == final_block_hash = None

\* FinalityInfoUpdater._perform_internal: chain_getBlockHash, then the test of
\* final_block_hash
FinGetBlockHash ==
    /\ pc = "fin_chain_getBlockHash"
    /\ \E o \in LoopOutcomes, miss \in BOOLEAN :
        /\ CanCall(o)
        /\ rpc' = request_nothrow(rpc, o)
        /\ LET to == IF RequestRaises(o) THEN Land("PolkadotRPCError", TRUE)
                     ELSE IF FinalizedAbsent(fin.final_block_hash) THEN TaskReturns
                          ELSE Stay("fin_cache_final")
           IN  /\ Goto(to)
               /\ g' = [g EXCEPT !.status = to.status]
               /\ fin' = IF to.pc = "fin_cache_final"
                         THEN [fin EXCEPT !.latest_block_hash = NodeHeadHash(miss)]
                         ELSE FinInit
    /\ UNCHANGED <<nodeVars, cache, engineVars, gauge_final_block,
                   gauge_finality_delay_blocks, histogram, taskVars, cget, info_updaters>>

\* FinalityInfoUpdater._perform_internal: the finalized block through the cache,
\* its check, the final_block gauge, and the check of latest_block_hash
FinCacheFinal ==
    /\ pc = "fin_cache_final"
    /\ \E o \in LoopOutcomes, miss \in BOOLEAN :
        /\ CacheHit(cache, fin.final_block_hash) \/ CanCall(o)
        /\ LET res == CacheGet(cache, rpc, fin.final_block_hash, o, miss)
               violated == IF res.exc # "none" THEN "none"
                           ELSE IF res.ret = NoBlock THEN "finalized block absent"
                           ELSE IF fin.latest_block_hash = None THEN "head hash absent"
                           ELSE "none"
               to == IF res.exc # "none" THEN Land(res.exc, TRUE)
                     ELSE IF violated # "none" THEN Land("RuntimeError", TRUE)
                          ELSE Stay("fin_cache_latest")
           IN  /\ cache' = res.cache
               /\ rpc' = res.rpc
               /\ Goto(to)
               /\ g' = [g EXCEPT !.status = to.status,
                                 !.violation = IF violated = "finalized block absent"
                                               THEN violated ELSE @]
               /\ gauge_final_block' =
                      IF res.exc = "none" /\ res.ret # NoBlock
                      THEN get_block_num(res.ret) ELSE gauge_final_block
               /\ fin' = IF to.pc = "fin_cache_latest" THEN fin ELSE FinInit
    /\ UNCHANGED <<nodeVars, engineVars, gauge_finality_delay_blocks, histogram,
                   taskVars, cget, info_updaters>>

\* a faulty variant of FinalityDelay: the operands are exchanged
FinalityDelaySwapped(latest_num, final_num) == final_num - latest_num

\* latest_block_num - final_block_num
FinalityDelay(latest_num, final_num) == latest_num - final_num

\* FinalityInfoUpdater._perform_internal: the head block through the cache, its
\* check, and the finality delay gauge and histogram
FinCacheLatest ==
    /\ pc = "fin_cache_latest"
    /\ \E o \in LoopOutcomes, miss \in BOOLEAN :
        /\ CacheHit(cache, fin.latest_block_hash) \/ CanCall(o)
        /\ LET res == CacheGet(cache, rpc, fin.latest_block_hash, o, miss)
               absent == res.exc = "none" /\ res.ret = NoBlock
               to == IF res.exc # "none" THEN Land(res.exc, TRUE)
                     ELSE IF absent THEN Land("RuntimeError", TRUE)
                          ELSE TaskReturns
               delay == FinalityDelay(get_block_num(res.ret), gauge_final_block)
           IN  /\ cache' = res.cache
               /\ rpc' = res.rpc
               /\ Goto(to)
               /\ g' = [g EXCEPT !.status = to.status,
                                 !.violation = IF absent THEN "head block absent" ELSE @]
               /\ IF res.exc = "none" /\ ~absent
                  THEN /\ gauge_finality_delay_blocks' = delay
                       /\ histogram' = [count |-> histogram.count + 1, last |-> delay]
                  ELSE UNCHANGED <<gauge_finality_delay_blocks, histogram>>
               /\ fin' = FinInit
    /\ UNCHANGED <<nodeVars, engineVars, gauge_final_block, taskVars, cget, info_updaters>>

\* ------------------------------------------------------------------ Exporter._step

\* self._last_processed_block_hash is not None
HasLastHash(h) == h # None

\* the fast path's comparison of the head's hash with the last processed hash
SameHead(result, last_hash) == result = last_hash

\* a faulty variant of WalkContinues: the walk goes one block past the head
WalkContinuesInclusive(last_num, latest_num) == last_num = NoneNum \/ last_num <= latest_num

\* the walk's loop test
WalkContinues(last_num, latest_num) == last_num = NoneNum \/ last_num < latest_num

\* a faulty variant of NextHeight: the walk skips a height
NextHeightSkips(last_num) == last_num + 2

\* self._last_processed_block_num + 1
NextHeight(last_num) == last_num + 1

\* the walk takes the head block itself: nothing was processed before
TakesHeadBlock(last_num) == last_num = NoneNum

\* _step's locals once _step is left
LocalsDropped ==
    /\ latest_block' = NoBlock
    /\ latest_block_num' = NoneNum
    /\ block_hash' = None

\* the fast path is not tried: no hash was recorded yet
FastSkip ==
    /\ pc = "fast"
    /\ ~HasLastHash(last_processed_block_hash)
    /\ pc' = "getHead"
    /\ UNCHANGED <<nodeVars, rpc, cache, next_iteration_time, idx, caller, engineVars,
                   finalityVars, taskVars, g, cget, info_updaters>>

\* the fast path: chain_getBlockHash and the comparison with the recorded hash
FastCheck ==
    /\ pc = "fast"
    /\ HasLastHash(last_processed_block_hash)
    /\ \E o \in LoopOutcomes, miss \in BOOLEAN :
        /\ CanCall(o)
        /\ rpc' = request_nothrow(rpc, o)
        /\ LET to == IF RequestRaises(o) THEN Land("PolkadotRPCError", FALSE)
                     ELSE IF SameHead(NodeHeadHash(miss), last_processed_block_hash)
                          THEN StepReturns
                          ELSE Stay("getHead")
           IN  /\ Goto(to)
               /\ g' = [g EXCEPT !.status = to.status,
                                 !.calls = Append(@, "chain_getBlockHash"),
                                 !.H = IF RequestRaises(o) \/ miss THEN @ ELSE head]
    /\ UNCHANGED <<nodeVars, cache, engineVars, finalityVars, taskVars, cget, info_updaters>>

\* chain_getBlock for the head, its height and the highest_block gauge
GetHead ==
    /\ pc = "getHead"
    /\ \E o \in LoopOutcomes, miss \in BOOLEAN :
        /\ CanCall(o)
        /\ rpc' = request_nothrow(rpc, o)
        /\ LET block == NodeHeadBlock(miss)
               to == IF RequestRaises(o) THEN Land("PolkadotRPCError", FALSE)
                     ELSE IF block = NoBlock THEN Land("TypeError", FALSE)
                          ELSE Stay("loop")
           IN  /\ Goto(to)
               /\ g' = [g EXCEPT !.status = to.status,
                                 !.calls = Append(@, "chain_getBlock"),
                                 !.H = IF to.pc = "loop" THEN get_block_num(block) ELSE @]
               /\ IF to.pc = "loop"
                  THEN /\ latest_block' = block
                       /\ latest_block_num' = get_block_num(block)
                       /\ gauge_highest_block' = get_block_num(block)
                       /\ UNCHANGED block_hash
                  ELSE /\ LocalsDropped
                       /\ UNCHANGED gauge_highest_block
    /\ UNCHANGED <<nodeVars, cache, last_processed_block_num, last_processed_block_hash,
                   counter_blocks_seen, counter_extrinsics_seen, observed, finalityVars,
                   taskVars, cget, info_updaters>>

\* the loop test fails: the walk is over and _step returns
LoopExit ==
    /\ pc = "loop"
    /\ ~WalkContinues(last_processed_block_num, latest_block_num)
    /\ Goto(StepReturns)
    /\ g' = [g EXCEPT !.status = "returned"]
    /\ LocalsDropped
    /\ UNCHANGED <<nodeVars, rpc, cache, last_processed_block_num,
                   last_processed_block_hash, gauge_highest_block, counter_blocks_seen,
                   counter_extrinsics_seen, observed, finalityVars, taskVars, cget, info_updaters>>

\* the first block ever: the head block is counted, then the tasks run
LoopFirst ==
    /\ pc = "loop"
    /\ WalkContinues(last_processed_block_num, latest_block_num)
    /\ TakesHeadBlock(last_processed_block_num)
    /\ counter_blocks_seen' = counter_blocks_seen + 1
    /\ last_processed_block_num' = get_block_num(latest_block)
    /\ counter_extrinsics_seen' = counter_extrinsics_seen + latest_block.extrinsics
    /\ observed' = Append(observed, get_block_num(latest_block))
    /\ Goto(RunUpdatersAfterBlock)
    /\ g' = [g EXCEPT !.pre = <<get_block_num(latest_block), last_processed_block_hash>>]
    /\ UNCHANGED <<nodeVars, rpc, cache, last_processed_block_hash, latest_block,
                   latest_block_num, block_hash, gauge_highest_block, finalityVars,
                   taskVars, cget, info_updaters>>

\* a later block: the walk goes on to ask for the next height's hash
LoopNext ==
    /\ pc = "loop"
    /\ WalkContinues(last_processed_block_num, latest_block_num)
    /\ ~TakesHeadBlock(last_processed_block_num)
    /\ pc' = "getHash"
    /\ UNCHANGED <<nodeVars, rpc, cache, next_iteration_time, idx, caller, engineVars,
                   finalityVars, taskVars, g, cget, info_updaters>>

\* chain_getBlockHash [last + 1], its check, and the assignment of the hash
GetHash ==
    /\ pc = "getHash"
    /\ \E o \in LoopOutcomes, miss \in BOOLEAN :
        /\ CanCall(o)
        /\ rpc' = request_nothrow(rpc, o)
        /\ LET hash == NodeHashAt(NextHeight(last_processed_block_num), miss)
               to == IF RequestRaises(o) THEN Land("PolkadotRPCError", FALSE)
                     ELSE IF hash = None THEN Land("RuntimeError", FALSE)
                          ELSE Stay("getBlock")
           IN  /\ Goto(to)
               /\ g' = [g EXCEPT !.status = to.status,
                                 !.calls = Append(@, "chain_getBlockHash(height)"),
                                 !.violation = IF ~RequestRaises(o) /\ hash = None
                                               THEN "hash absent" ELSE @]
               /\ IF to.pc = "getBlock"
                  THEN /\ block_hash' = hash
                       /\ last_processed_block_hash' = hash
                       /\ UNCHANGED <<latest_block, latest_block_num>>
                  ELSE /\ LocalsDropped
                       /\ UNCHANGED last_processed_block_hash
    /\ UNCHANGED <<nodeVars, cache, last_processed_block_num, gauge_highest_block,
                   counter_blocks_seen, counter_extrinsics_seen, observed, finalityVars,
                   taskVars, cget, info_updaters>>

\* chain_getBlock [block_hash], its check (the response object is never None, so
\* the check always passes), the counters and the new height, then the tasks run.
\* A null "result" makes _get_block_num raise TypeError after the blocks counter
\* was incremented.
GetBlock ==
    /\ pc = "getBlock"
    /\ \E o \in LoopOutcomes, miss \in BOOLEAN :
        /\ CanCall(o)
        /\ rpc' = request_nothrow(rpc, o)
        /\ LET block == NodeBlock(block_hash, miss)
               to == IF RequestRaises(o) THEN Land("PolkadotRPCError", FALSE)
                     ELSE IF block = NoBlock THEN Land("TypeError", FALSE)
                          ELSE RunUpdatersAfterBlock
           IN  /\ Goto(to)
               /\ counter_blocks_seen' =
                      IF RequestRaises(o) THEN counter_blocks_seen
                      ELSE counter_blocks_seen + 1
               /\ IF to = RunUpdatersAfterBlock
                  THEN /\ last_processed_block_num' = get_block_num(block)
                       /\ counter_extrinsics_seen' =
                              counter_extrinsics_seen + block.extrinsics
                       /\ observed' = Append(observed, get_block_num(block))
                       /\ block_hash' = None
                       /\ UNCHANGED <<latest_block, latest_block_num>>
                       /\ g' = [g EXCEPT
                                  !.calls = Append(@, "chain_getBlock(hash)"),
                                  !.pre = <<get_block_num(block), last_processed_block_hash>>]
                  ELSE /\ LocalsDropped
                       /\ UNCHANGED <<last_processed_block_num, counter_extrinsics_seen,
                                      observed>>
                       /\ g' = [g EXCEPT
                                  !.status = to.status,
                                  !.calls = Append(@, "chain_getBlock(hash)"),
                                  !.violation = IF ~RequestRaises(o) /\ block = NoBlock
                                                THEN "block absent" ELSE @]
    /\ UNCHANGED <<nodeVars, cache, last_processed_block_hash, gauge_highest_block,
                   finalityVars, taskVars, cget, info_updaters>>

\* serve_forever: the rest of the poll interval is slept, then the loop iterates
Sleep ==
    /\ pc = "sleep"
    /\ next_iteration_time <= MaxTime
    /\ now' = Max(now, next_iteration_time)
    /\ pc' = "tick"
    /\ UNCHANGED <<head, finalized, rpc, cache, next_iteration_time, idx, caller,
                   engineVars, finalityVars, taskVars, g, cget, info_updaters>>

\* ------------------------------------------------------------------ specification

Next ==
    \/ AdvanceHead
    \/ Tick
    \/ StartStep
    \/ RunSkip
    \/ RunPerform
    \/ UpdatersDone
    \/ TaskCall
    \/ FastSkip
    \/ FastCheck
    \/ GetHead
    \/ LoopExit
    \/ LoopFirst
    \/ LoopNext
    \/ GetHash
    \/ GetBlock
    \/ Sleep

Spec == Init /\ [][Next]_vars

\* ------------------------------------------------------------------ with the cache's tasks

\* the exporter with MemPoolUpdater and FinalityInfoUpdater registered
InitTasks ==
    /\ head = MinHeight
    /\ finalized = NoneNum
    /\ now = MaxTime - 2 * POLL_INTERVAL
    /\ rpc = RpcInit
    /\ cache = EmptyCache
    /\ pc = "tick"
    /\ next_iteration_time = 0
    /\ last_processed_block_num = NoneNum
    /\ last_processed_block_hash = None
    /\ latest_block = NoBlock
    /\ latest_block_num = NoneNum
    /\ block_hash = None
    /\ gauge_highest_block = NoneNum
    /\ counter_blocks_seen = 0
    /\ counter_extrinsics_seen = 0
    /\ idx = 0
    /\ caller = "none"
    /\ last_invocation_time = [t \in {"system", "health", "mempool", "finality"} |-> NoneNum]
    /\ fin = FinInit
    /\ gauge_final_block = NoneNum
    /\ gauge_finality_delay_blocks = NoneNum
    /\ histogram = [count |-> 0, last |-> NoneNum]
    /\ published = {}
    /\ observed = <<>>
    /\ g = GInit
    /\ cget = CgetInit
    /\ info_updaters = CacheUpdaters

NextTasks ==
    \/ AdvanceHead
    \/ Finalize
    \/ Tick
    \/ StartStep
    \/ RunSkip
    \/ RunPerform
    \/ UpdatersDone
    \/ FastSkip
    \/ FastCheck
    \/ GetHead
    \/ LoopExit
    \/ LoopFirst
    \/ LoopNext
    \/ GetHash
    \/ GetBlock
    \/ Sleep
    \/ FinGetFinalizedHead
    \/ FinGetBlockHash
    \/ FinCacheFinal
    \/ FinCacheLatest

SpecTasks == InitTasks /\ [][NextTasks]_vars

\* ------------------------------------------------------------------ the cache alone

\* the greatest number of calls the cache's client issues when the cache is driven
\* alone: enough to fill the cache, clean it up and fill it again
MaxCacheCalls == 3 * CacheSize + 2

\* the node's chain when the cache is driven alone: enough blocks to overfill it
CacheHead == MinHeight + 2 * CacheSize

\* the identifiers passed to BlockCache.get: every block's, in small letters and in
\* capitals, and one of a block the node does not have
DriverIds ==
    {HashOf(n) : n \in MinHeight..(CacheHead + 1)}
    \cup {Upper(HashOf(n)) : n \in MinHeight..CacheHead}

\* a BlockCache over a fresh client, and a node with 2 * CacheSize + 1 blocks
InitCache ==
    /\ head = CacheHead
    /\ finalized = NoneNum
    /\ now = 0
    /\ rpc = RpcInit
    /\ cache = EmptyCache
    /\ pc = "cache_driver"
    /\ next_iteration_time = 0
    /\ last_processed_block_num = NoneNum
    /\ last_processed_block_hash = None
    /\ latest_block = NoBlock
    /\ latest_block_num = NoneNum
    /\ block_hash = None
    /\ gauge_highest_block = NoneNum
    /\ counter_blocks_seen = 0
    /\ counter_extrinsics_seen = 0
    /\ idx = 0
    /\ caller = "none"
    /\ last_invocation_time = [t \in {"system", "health", "mempool", "finality"} |-> NoneNum]
    /\ fin = FinInit
    /\ gauge_final_block = NoneNum
    /\ gauge_finality_delay_blocks = NoneNum
    /\ histogram = [count |-> 0, last |-> NoneNum]
    /\ published = {}
    /\ observed = <<>>
    /\ g = GInit
    /\ cget = CgetInit
    /\ info_updaters = <<>>

\* a consumer calls BlockCache.get for a resident block
CacheDriverHit ==
    /\ pc = "cache_driver"
    /\ \E id \in DriverIds :
        /\ CacheHit(cache, id)
        /\ LET res == CacheGet(cache, rpc, id, CHOOSE o \in LoopOutcomes : TRUE, FALSE)
           IN  /\ cache' = res.cache
               /\ rpc' = res.rpc
               /\ cget' = [id |-> id, hit |-> TRUE, ret |-> res.ret, exc |-> res.exc]
    /\ UNCHANGED <<nodeVars, controlVars, engineVars, finalityVars, taskVars, g,
                   info_updaters>>

\* a consumer calls BlockCache.get for a block that is not resident
CacheDriverFetch ==
    /\ pc = "cache_driver"
    /\ \E id \in DriverIds, o \in LoopOutcomes, miss \in BOOLEAN :
        /\ ~CacheHit(cache, id)
        /\ rpc.next_id <= MaxCacheCalls
        /\ RequestRaises(o) => Failures(rpc) < MaxFailures
        /\ LET res == CacheGet(cache, rpc, id, o, miss)
           IN  /\ cache' = res.cache
               /\ rpc' = res.rpc
               /\ cget' = [id |-> id, hit |-> FALSE, ret |-> res.ret, exc |-> res.exc]
    /\ UNCHANGED <<nodeVars, controlVars, engineVars, finalityVars, taskVars, g,
                   info_updaters>>

NextCache ==
    \/ CacheDriverHit
    \/ CacheDriverFetch


SpecCache == InitCache /\ [][NextCache]_vars

\* ------------------------------------------------------------------ the client alone

\* the number of calls issued when the client is driven alone
MaxRpcCalls == 5

\* a fresh PolkadotRPC and nothing else running
InitRpc ==
    /\ head = MinHeight
    /\ finalized = NoneNum
    /\ now = 0
    /\ rpc = RpcInit
    /\ cache = EmptyCache
    /\ pc = "rpc_driver"
    /\ next_iteration_time = 0
    /\ last_processed_block_num = NoneNum
    /\ last_processed_block_hash = None
    /\ latest_block = NoBlock
    /\ latest_block_num = NoneNum
    /\ block_hash = None
    /\ gauge_highest_block = NoneNum
    /\ counter_blocks_seen = 0
    /\ counter_extrinsics_seen = 0
    /\ idx = 0
    /\ caller = "none"
    /\ last_invocation_time = [t \in {"system", "health", "mempool", "finality"} |-> NoneNum]
    /\ fin = FinInit
    /\ gauge_final_block = NoneNum
    /\ gauge_finality_delay_blocks = NoneNum
    /\ histogram = [count |-> 0, last |-> NoneNum]
    /\ published = {}
    /\ observed = <<>>
    /\ g = GInit
    /\ cget = CgetInit
    /\ info_updaters = <<>>

\* a caller issues one call with request_nothrow, with any outcome of the exchange
RpcDriverCall ==
    /\ pc = "rpc_driver"
    /\ rpc.next_id <= MaxRpcCalls
    /\ \E o \in Outcomes : rpc' = request_nothrow(rpc, o)
    /\ UNCHANGED <<nodeVars, cache, controlVars, engineVars, finalityVars, taskVars, g,
                   cget, info_updaters>>

NextRpc == RpcDriverCall

SpecRpc == InitRpc /\ [][NextRpc]_vars

\* ------------------------------------------------------------------ properties

\* the heights lo+1, lo+2, ..., hi in increasing order
Run(lo, hi) == [i \in 1..(hi - lo) |-> lo + i]

\* the last n elements of seq
LastN(seq, n) == SubSeq(seq, Len(seq) - n + 1, Len(seq))

\* _step returned normally and the loop is about to sleep
StepReturned == pc = "sleep" /\ g.status = "returned"

\* C1: a _step that starts with last processed height L, sees a head of height
\* H > L and returns without an RPC failure has counted exactly the blocks
\* L+1, ..., H, once each and in increasing order, and ends with height H.
C1_AdvanceCountsEveryHeight ==
    (StepReturned /\ g.L # NoneNum /\ g.H # NoneNum /\ g.L < g.H)
        => /\ last_processed_block_num = g.H
           /\ counter_blocks_seen - g.n0 = g.H - g.L
           /\ Len(observed) >= g.H - g.L
           /\ LastN(observed, g.H - g.L) = Run(g.L, g.H)

\* C2: while the process lives, the heights of the counted blocks are consecutive,
\* the last one is last_processed_block_num, and the blocks counter equals
\* last - first + 1 (so the height never decreases and no block is counted twice
\* or skipped), whatever calls failed and however the head moved.
C2_GapFreeRun ==
    pc # "crashed"
        => /\ \A i \in 1..(Len(observed) - 1) : observed[i + 1] = observed[i] + 1
           /\ counter_blocks_seen = Len(observed)
           /\ IF observed = <<>>
              THEN last_processed_block_num = NoneNum
              ELSE /\ last_processed_block_num = observed[Len(observed)]
                   /\ counter_blocks_seen = last_processed_block_num - observed[1] + 1

\* a walk of three blocks was completed although a cycle was aborted by an RPC
\* failure and the head moved meanwhile
C2_Witness ==
    /\ pc = "sleep"
    /\ Len(observed) = 3
    /\ g.prev = "aborted"
    /\ Failures(rpc) > 0

\* C3: when an RPC failure aborts _step, last_processed_block_num and
\* last_processed_block_hash are what they were after the last counted block (or
\* at the start of the cycle, if no block was counted in it).
C3_AbortLeavesCatchUpState ==
    (pc = "sleep" /\ g.status = "aborted")
        => <<last_processed_block_num, last_processed_block_hash>> = g.pre

\* C4: when a block was processed before, the previous _step returned and the
\* head this _step sees is the head the previous one saw, this _step makes one
\* call, chain_getBlockHash, and changes no gauge and no counter.
C4_UnchangedHeadOneCall ==
    (StepReturned /\ g.prev = "returned" /\ g.L # NoneNum /\ g.H = g.prevH)
        => /\ g.calls = <<"chain_getBlockHash">>
           /\ gauge_highest_block = g.hb0
           /\ counter_blocks_seen = g.n0
           /\ counter_extrinsics_seen = g.x0

\* C5: a _step that starts with nothing processed calls the node once at most,
\* with chain_getBlock for the head, and when it returns it has counted one
\* block, the head block of height h, added that block's extrinsics and set the
\* height to h.
C5_FirstAdvanceTakesHead ==
    (g.L = NoneNum /\ g.status # "none")
        => /\ g.calls \in {<<>>, <<"chain_getBlock">>}
           /\ counter_blocks_seen <= 1
           /\ StepReturned
                => /\ g.calls = <<"chain_getBlock">>
                   /\ g.H \in MinHeight..head
                   /\ counter_blocks_seen = 1
                   /\ observed = <<g.H>>
                   /\ last_processed_block_num = g.H
                   /\ counter_extrinsics_seen = ExtrinsicsAt(g.H)

\* the first _step returned after the head had moved past its first height
C5_Witness ==
    /\ StepReturned
    /\ g.L = NoneNum
    /\ last_processed_block_num > MinHeight
    /\ counter_extrinsics_seen = ExtrinsicsAt(last_processed_block_num)

\* C6: once the node answers with an absent hash for the next height, or with an
\* absent block for an identifier it gave (in the walk or in the finality
\* tracker), the process is terminated by the exception, and the height is the
\* one of the last counted block.
C6_ViolationTerminates ==
    g.violation # "none"
        => /\ pc = "crashed"
           /\ last_processed_block_num = g.pre[1]

\* the finality tracker met an absent finalized block after a block was counted
C6_Witness ==
    /\ g.violation = "finalized block absent"
    /\ pc = "crashed"
    /\ counter_blocks_seen > 0

\* the two identifiers differ in letter case at most
SameIgnoringCase(a, b) ==
    /\ Len(a) = Len(b)
    /\ \A i \in 1..Len(a) :
        \/ a[i] = b[i]
        \/ <<a[i], b[i]>> \in {<<"a", "A">>, <<"b", "B">>, <<"c", "C">>, <<"d", "D">>,
                                <<"e", "E">>, <<"f", "F">>, <<"x", "X">>,
                                <<"A", "a">>, <<"B", "b">>, <<"C", "c">>, <<"D", "d">>,
                                <<"E", "e">>, <<"F", "f">>, <<"X", "x">>}

\* the entries of c whose key is id up to letter case
Resident(c, id) == {k \in Keys(c) : SameIgnoringCase(k, id)}

\* a step of the cache driver is a call of BlockCache.get for cget'.id
GetCalled == pc = "cache_driver" /\ (cget' # cget \/ cache' # cache \/ rpc' # rpc)

\* C7: a get for an identifier that is resident up to letter case returns the
\* resident block without any call to the node and leaves the cache alone; no
\* two entries differ in letter case only.
C7_HitMakesNoCall ==
    [][GetCalled =>
        /\ Resident(cache, cget'.id) # {}
              => /\ rpc' = rpc
                 /\ cache' = cache
                 /\ cget'.exc = "none"
                 /\ \A k \in Resident(cache, cget'.id) : cget'.ret = cache[k]
        /\ \A k \in Keys(cache') : Cardinality(Resident(cache', k)) = 1]_vars

\* a get in capitals was answered from the entry stored under small letters
C7_Witness ==
    /\ pc = "cache_driver"
    /\ cget.hit
    /\ cget.id # Lower(cget.id)
    /\ Lower(cget.id) \in Keys(cache)
    /\ cget.ret = BlockAt(MinHeight + 1)
    /\ rpc.rpc_calls = 1

\* C8 as stated: the cache never holds more than 2 * C - 1 entries.
C8_SizeBelowTwiceCapacity == Cardinality(Keys(cache)) <= 2 * CacheSize - 1

\* C8 as amended: the cache never holds more than 2 * C entries.
C8_SizeAtMostTwiceCapacity == Cardinality(Keys(cache)) <= 2 * CacheSize

\* the cache is full to 2 * C entries
C8_Witness == pc = "cache_driver" /\ Cardinality(Keys(cache)) = 2 * CacheSize

\* C9: a get that inserts a block evicts exactly when the cache held at least
\* 2 * C entries, and then keeps, beside the new block, exactly the C entries
\* with the greatest heights; otherwise it keeps every entry.
C9_EvictionKeepsHighest ==
    [][Keys(cache') # Keys(cache) =>
        LET new == Keys(cache') \ Keys(cache)
            kept == Keys(cache') \ new
        IN  /\ Cardinality(new) = 1
            /\ kept \subseteq Keys(cache)
            /\ \A k \in kept : cache'[k] = cache[k]
            /\ IF Cardinality(Keys(cache)) >= 2 * CacheSize
               THEN /\ Cardinality(kept) = CacheSize
                    /\ \A k \in kept : \A d \in Keys(cache) \ kept :
                          get_block_num(cache[k]) > get_block_num(cache[d])
               ELSE kept = Keys(cache)]_vars

\* the blocks of the 2 * C + 1 heights were fetched lowest first: the fetch of the
\* highest found 2 * C entries and kept the C highest of them
C9_Witness ==
    /\ pc = "cache_driver"
    /\ rpc.rpc_calls = 2 * CacheSize + 1
    /\ Keys(cache) = {HashOf(CacheHead - i) : i \in 0..CacheSize}
    /\ cget.id = HashOf(CacheHead)

\* C10: a get changes the cache only when it fetched a block that is not absent and
\* then returns that block; a get whose fetch failed raises the failure, one
\* whose fetch found no block returns None, both leave the cache as it was, with
\* no entry for that identifier; no entry holds an absent block.
C10_OnlyFetchedBlocksStored ==
    [][GetCalled =>
        /\ cache' # cache
              => /\ rpc'.rpc_calls = rpc.rpc_calls + 1
                 /\ cget'.exc = "none"
                 /\ cget'.ret # NoBlock
                 /\ cget'.ret = cache'[Lower(cget'.id)]
        /\ (cget'.exc # "none" \/ cget'.ret = NoBlock)
              => /\ cache' = cache
                 /\ rpc'.rpc_calls = rpc.rpc_calls + 1
                 /\ Resident(cache', cget'.id) = {}
        /\ \A k \in Keys(cache') : cache'[k] # NoBlock]_vars

\* an absent answer was followed by a second fetch of the same identifier
C10_Witness ==
    /\ pc = "cache_driver"
    /\ cget.ret = NoBlock
    /\ cget.exc = "none"
    /\ rpc.rpc_calls = 2
    /\ cache = EmptyCache

\* C11: the catch-up engine takes the head block and every block of the walk from
\* the block cache: it never issues chain_getBlock for a block that is resident in
\* the cache (which the finality tracker fills), so no block is fetched twice
\* while it is resident.
C11_EngineFetchesThroughCache ==
    [][(/\ pc \in {"getHead", "getBlock"}
        /\ rpc'.rpc_calls = rpc.rpc_calls + 1
        /\ Succeeds(rpc'.last_outcome))
          => ~CacheHit(cache, IF pc = "getHead" THEN HashOf(head) ELSE block_hash)]_vars

\* C12: run() of a task that never ran enters the body; run() of a task whose
\* last invocation is less than a period ago does nothing; whenever a body is
\* entered, a period or more has passed since the last entry and the time of
\* the entry is recorded at once, so that it stands while the body runs (and
\* after the body failed).
C12_PeriodBetweenRuns ==
    [][/\ (pc = "run" /\ idx \in 1..Len(info_updaters) /\ now' = now)
            => LET t == info_updaters[idx]
                   last == last_invocation_time[t]
               IN  /\ last = NoneNum => pc' = FirstPc(t)
                   /\ pc' = FirstPc(t)
                         => /\ last = NoneNum \/ now - last >= Period(t)
                            /\ last_invocation_time'[t] = now
                   /\ (last # NoneNum /\ now - last < Period(t))
                         => /\ pc' = "run"
                            /\ idx' = idx + 1
                            /\ rpc' = rpc
                            /\ published' = published
                            /\ last_invocation_time' = last_invocation_time
       /\ pc \in SimplePcs
            => /\ last_invocation_time[info_updaters[idx]] = now
               /\ last_invocation_time' = last_invocation_time]_vars

\* the health task's body failed at time 0 and the next polling cycle, half a
\* second later, passed without entering it again
C12_Witness ==
    /\ pc = "sleep"
    /\ g.prev # "none"
    /\ now = POLL_INTERVAL
    /\ last_invocation_time["health"] = 0
    /\ "polkadot_node_health" \notin published
    /\ Failures(rpc) = 1

\* C13: when a call in a task's body fails, control goes on to the next task of
\* the same _run_updaters pass, _step keeps running (its status and its caller
\* stay), and the catch-up state and the block counters are as before.
C13_TaskFailureIsolated ==
    [][(/\ pc \in SimplePcs
        /\ rpc'.rpc_calls = rpc.rpc_calls + 1
        /\ ~Succeeds(rpc'.last_outcome))
          => /\ pc' = "run"
             /\ idx' = idx + 1
             /\ caller' = caller
             /\ g'.status = "running"
             /\ last_processed_block_num' = last_processed_block_num
             /\ last_processed_block_hash' = last_processed_block_hash
             /\ counter_blocks_seen' = counter_blocks_seen
             /\ counter_extrinsics_seen' = counter_extrinsics_seen
             /\ published' = published]_vars

\* in the first pass of the first cycle the system task failed, the health task
\* after it published, and _step reached its head check
C13_Witness ==
    /\ pc = "fast"
    /\ g.prev = "none"
    /\ g.status = "running"
    /\ last_invocation_time["system"] = 0
    /\ "polkadot_system" \notin published
    /\ "polkadot_node_health" \in published
    /\ Failures(rpc) = 1

\* C14: when chain_getFinalizedHead gave no identifier and chain_getBlockHash
\* answered (with an identifier or with none), the finality tracker's body
\* returns: the next task's turn comes, nothing is raised, the cache is not
\* consulted and the three finality metrics keep their values; the cache lookups
\* are reached with a finalized identifier only.
C14_AbsentFinalizedHeadIsQuiet ==
    [][/\ (/\ pc = "fin_chain_getBlockHash"
            /\ fin.final_block_hash = None
            /\ rpc'.rpc_calls = rpc.rpc_calls + 1
            /\ Succeeds(rpc'.last_outcome))
              => /\ pc' = "run"
                 /\ idx' = idx + 1
                 /\ g'.status = "running"
                 /\ g'.violation = "none"
                 /\ cache' = cache
                 /\ gauge_final_block' = gauge_final_block
                 /\ gauge_finality_delay_blocks' = gauge_finality_delay_blocks
                 /\ histogram' = histogram
       /\ pc \in {"fin_cache_final", "fin_cache_latest"}
              => fin.final_block_hash # None]_vars

\* the tracker's two calls succeeded in the first pass of the first cycle and
\* the tracker returned without a finalized head, the cache and the metrics untouched
C14_Witness ==
    /\ pc = "run"
    /\ idx = 2
    /\ g.prev = "none"
    /\ caller = "start"
    /\ rpc.rpc_calls = 2
    /\ Failures(rpc) = 0
    /\ cache = EmptyCache
    /\ gauge_final_block = NoneNum
    /\ histogram.count = 0

\* C15: the finality delay gauge and the histogram change together, at the end of
\* the tracker's body only, and the value published is the height of the head
\* identifier minus the height of the finalized identifier the body fetched,
\* which is not negative, however the node moved between the two calls.
C15_DelayIsHeadMinusFinalized ==
    [][/\ gauge_finality_delay_blocks' # gauge_finality_delay_blocks
            => histogram'.count # histogram.count
       /\ histogram' # histogram
            => /\ pc = "fin_cache_latest"
               /\ IsHash(fin.final_block_hash)
               /\ IsHash(fin.latest_block_hash)
               /\ LET d == HeightOf(fin.latest_block_hash) - HeightOf(fin.final_block_hash)
                  IN  /\ d >= 0
                      /\ gauge_finality_delay_blocks' = d
                      /\ histogram' = [count |-> histogram.count + 1, last |-> d]]_vars

\* the first delay published is one more than the node's delay at that time: the
\* node finalized a block between the tracker's two calls
C15_Witness ==
    /\ pc = "run"
    /\ histogram.count = 1
    /\ finalized # NoneNum
    /\ gauge_finality_delay_blocks = head - finalized + 1
    /\ histogram.last = gauge_finality_delay_blocks

\* the five failure tallies of the client, and the tally every call increments
FailureTallies(r) ==
    <<r.network_error, r.e4xx_error, r.e5xx_error, r.unexpected_status, r.request_error>>

\* the place in FailureTallies of the tally that matches outcome o, 0 for a success
TallyOf(o) ==
    IF o.net THEN 1
    ELSE IF o.status \in 400..499 THEN 2
    ELSE IF o.status \in 500..599 THEN 3
    ELSE IF o.status # 200 THEN 4
    ELSE IF o.error THEN 5
    ELSE 0

\* C16 as stated: a call increments exactly one tally among the five failure
\* tallies and the tally a successful call increments (polkadot_exporter_rpc_calls,
\* the only counter a successful call touches).
C16_ExactlyOneTally ==
    [][rpc' # rpc =>
        Cardinality({i \in 1..5 : FailureTallies(rpc')[i] # FailureTallies(rpc)[i]}
                    \cup (IF rpc'.rpc_calls # rpc.rpc_calls THEN {6} ELSE {})) = 1]_vars

\* C16 as amended: every call increments the tally of calls by one; a failed call
\* increments, besides, the one failure tally that matches its kind by one and
\* no other; a successful call increments no failure tally.
C16_CallsTallyAndOneFailureTally ==
    [][rpc' # rpc =>
        /\ rpc'.rpc_calls = rpc.rpc_calls + 1
        /\ \A i \in 1..5 :
              FailureTallies(rpc')[i] =
                  FailureTallies(rpc)[i] + (IF i = TallyOf(rpc'.last_outcome) THEN 1 ELSE 0)]_vars

\* four calls were made: a 4xx, a 5xx, another status, and one that succeeded
C16_Witness ==
    /\ pc = "rpc_driver"
    /\ rpc.rpc_calls = 4
    /\ rpc.e4xx_error = 1
    /\ rpc.e5xx_error = 1
    /\ rpc.unexpected_status = 1
    /\ Failures(rpc) = 3
    /\ Succeeds(rpc.last_outcome)

\* C17: the identifier sent with the last call is the number of calls issued so
\* far, and the next identifier is one more: the k-th call carries k, failed
\* calls included.
C17_RequestIdIsCallNumber ==
    /\ rpc.last_request_id = rpc.rpc_calls
    /\ rpc.next_id = rpc.rpc_calls + 1

\* the third call was sent after two calls failed, and carried 3
C17_Witness ==
    /\ pc = "rpc_driver"
    /\ rpc.last_request_id = 3
    /\ Failures(rpc) = 2
    /\ Succeeds(rpc.last_outcome)

\* C18: the engine concludes that it is caught up (the fast path returns after
\* the one chain_getBlockHash call) only when last_processed_block_num is the
\* height of the head it was told; otherwise, with the head at rest, every later
\* cycle returns the same way and the missing blocks are never counted.
C18_CaughtUpOnlyAtHead ==
    (StepReturned /\ g.calls = <<"chain_getBlockHash">>)
        => last_processed_block_num = g.H

\* C19: between two polling cycles last_processed_block_hash and
\* last_processed_block_num are both None, or the hash is the identifier of the
\* block at that height.
C19_HashNamesLastBlock ==
    pc \in {"sleep", "tick"}
        => \/ /\ last_processed_block_num = NoneNum
              /\ last_processed_block_hash = None
           \/ /\ last_processed_block_num # NoneNum
              /\ last_processed_block_hash # None
              /\ IsHash(last_processed_block_hash)
              /\ HeightOf(last_processed_block_hash) = last_processed_block_num

\* the walk of the current _step has begun
WalkBegun == \E i \in DOMAIN g.calls : g.calls[i] = "chain_getBlockHash(height)"

\* C20: while _step holds the head block, the highest_block gauge is that block's
\* height, a height of the node's chain; once the walk has begun the gauge keeps
\* the head height of that _step, also after the walk was aborted; and the gauge
\* is never below last_processed_block_num.
C20_HighestBlockCoversWalk ==
    /\ latest_block_num # NoneNum
          => /\ gauge_highest_block = latest_block_num
             /\ latest_block_num \in MinHeight..head
    /\ WalkBegun => gauge_highest_block = g.H
    /\ (gauge_highest_block # NoneNum /\ last_processed_block_num # NoneNum)
          => gauge_highest_block >= last_processed_block_num

\* a walk was aborted by a failed call with blocks still to count: the gauge
\* shows the head's height, above the last processed height
C20_Witness ==
    /\ pc = "sleep"
    /\ g.status = "aborted"
    /\ WalkBegun
    /\ last_processed_block_num # NoneNum
    /\ gauge_highest_block = g.H
    /\ gauge_highest_block > last_processed_block_num

\* the number of blocks counted in the current _step
BlocksThisStep == counter_blocks_seen - g.n0

\* the number of _run_updaters passes begun in the current _step
PassesBegun == IF caller = "start" THEN 1 ELSE 1 + BlocksThisStep

\* C21: in every _step, besides the pass _step begins with, there is one pass over
\* the registered tasks per block counted: when control is in _step itself (at
\* the head check, at the loop test, before the request for the next hash or
\* block, or after _step was left) every task's run() was called once more than
\* blocks were counted; inside a pass the tasks up to the current one had their
\* call of this pass and the later ones are one behind.
C21_RunPerBlock ==
    /\ (pc \in {"fast", "getHead", "loop", "getHash", "getBlock"}
         \/ (pc = "sleep" /\ g.status \in {"returned", "aborted"}))
          => \A i \in 1..Len(info_updaters) :
                g.runs[info_updaters[i]] = 1 + BlocksThisStep
    /\ pc = "run"
          => \A i \in 1..Len(info_updaters) :
                g.runs[info_updaters[i]] = IF i < idx THEN PassesBegun ELSE PassesBegun - 1
    /\ pc \in SimplePcs \cup {"chain_getFinalizedHead", "fin_chain_getBlockHash",
                              "fin_cache_final", "fin_cache_latest"}
          => \A i \in 1..Len(info_updaters) :
                g.runs[info_updaters[i]] = IF i <= idx THEN PassesBegun ELSE PassesBegun - 1

\* a _step walked two blocks and returned: each task's run() was called three times
C21_Witness ==
    /\ StepReturned
    /\ g.L # NoneNum
    /\ BlocksThisStep = 2
    /\ g.runs["system"] = 3
    /\ g.runs["health"] = 3
====
